---- MODULE Spec2Model ----
(***************************************************************************)
(* A model of the concurrency core of the rtmp repository:                 *)
(*   - the message streams (control.Stream, data.Stream, stream.NetStream):*)
(*     a run loop that selects over the chunk channel and the closer       *)
(*     channel, parses each chunk and hands the result to In() or Errs();  *)
(*   - the TCP server (server.Server): the Accept loop and the             *)
(*     Close/Release state machine guarded by a mutex and a condition.     *)
(* All Go channels of the code are unbuffered: a send is a rendezvous, so  *)
(* a sender blocked in a send is a position of its process, and the        *)
(* receive is the step that moves it on.                                   *)
(***************************************************************************)
EXTENDS Naturals, Sequences, FiniteSets

\* ---------------------------------------------------------------- bounds
\* Chunks the run loop may take while the history is recorded.
MaxTaken == 3
\* Concurrent callers of Close() on one stream.
MaxClosers == 2
\* Send/Write/WriteStatus calls while the history is recorded.
MaxSends == 1
\* Invocations of Server.Accept() on one server.
MaxAccepts == 2
\* Callers of Server.Close() on one server.
MaxCloseCalls == 2
\* Callers of Server.Release() on one server.
MaxReleaseCalls == 2
\* Connections the listener hands out while the history is recorded.
MaxConns == 2
\* Errors the Accept task may send on Errs() while the history is recorded.
MaxErrs == 2

\* ------------------------------------------------------- message streams
VARIABLES
    flavor,       \* which of the three stream types this instance is
    rejects,      \* the parser: the chunk values on which Parse fails
    pc,           \* position of the run task (Recv / Listen)
    cur,          \* the chunk, then the parse result, the run task holds
    exitCause,    \* why the run task left its loop
    chunksClosed, \* the chunk channel has been closed by its producer
    closes,       \* per channel of the stream, how often it was closed
    closeSt,      \* per Close() caller, its position
    late,         \* per Close() caller, whether it called after the loop exited
    history,      \* whether the observer records the histories below
    taken,        \* history: values the run task received from the chunk channel
    inFeed,       \* history: values consumers received from In()
    errsFeed,     \* history: values consumers received from Errs()
    sendLog,      \* history: Send calls, message and returned result
    wire          \* history: writer.Write calls, chunk and writer result

\* ------------------------------------------------------------ the server
VARIABLES
    state,        \* Server.state
    mu,           \* holder of scond.L, the mutex of the condition
    sockClosed,   \* the listener s.socket has been closed
    deadlinePast, \* the listener's deadline has been set to a time now past
    apc,          \* per Accept() invocation, its position
    aerr,         \* per Accept() invocation, the error its accept call returned
    aconn,        \* per Accept() invocation, the connection it holds
    cpc,          \* per Close() caller, its position
    cAtAccept,    \* per Close() caller, whether it called while the Accept
                  \* task was blocked in the accept call, state accepting
    rpc,          \* per Release() caller, its position
    rAtAccept,    \* the same, per Release() caller
    rret,         \* per Release() caller, what it returned
    nconn,        \* history: connections the listener has handed out
    clientsFeed,  \* history: clients consumers received from Clients()
    serrsFeed,    \* history: errors consumers received from Errs()
    feedCloses    \* per channel of the server, how often it was closed

serverVars == <<state, mu, sockClosed, deadlinePast, apc, aerr, aconn, cpc,
                cAtAccept, rpc, rAtAccept, rret, nconn, clientsFeed,
                serrsFeed, feedCloses>>

streamVars == <<flavor, rejects, pc, cur, exitCause, chunksClosed, closes,
                closeSt, late, history, taken, inFeed, errsFeed, sendLog, wire>>

Flavors == {"control", "data", "netstream"}
Chunks == {"c1", "c2"}
\* The zero value a receive from a closed channel yields (a nil *chunk.Chunk).
NilChunk == "nil"
ChunkVals == Chunks \cup {NilChunk}
\* What the run task holds: <<kind, chunk value>>, the kind being "chunk",
\* "message" or "parseError"; NoValue when it holds nothing.
NoValue == <<"none", "none">>
Closers == 1..MaxClosers
Channels == {"in", "errs", "closer"}
\* Messages handed to Send: "m1" encodes, "bad" does not.
Messages == {"m1", "bad"}
WriteResults == {"nil", "ioerr"}

\* parser.Parse: a message for a chunk the parser accepts, an error otherwise.
Parse(c) ==
    IF c[2] \in rejects THEN [ok |-> FALSE, val |-> <<"parseError", c[2]>>]
                        ELSE [ok |-> TRUE, val |-> <<"message", c[2]>>]

\* chunker.Chunk / Data.Marshal / Status.AsChunk: the chunk of a message, or
\* an encoding error.
Encode(m) ==
    IF m = "bad" THEN [ok |-> FALSE, chunk |-> <<"none", m>>, err |-> "encodeError"]
                 ELSE [ok |-> TRUE, chunk |-> <<"chunk", m>>, err |-> "nil"]

\* The observer's record of an event, kept only while the history is on.
Record(log, x) == IF history THEN Append(log, x) ELSE log

\* The run task has left its loop (it runs, or has run, its deferred closes).
Exited == pc \in {"closeIn", "closeErrs", "closeCloser", "done", "panicked"}

StreamInitCommon ==
    /\ flavor \in Flavors
    /\ rejects \in SUBSET ChunkVals
    /\ pc = "new"
    /\ cur = NoValue
    /\ exitCause = "none"
    /\ chunksClosed = FALSE
    /\ closes = [ch \in Channels |-> 0]
    /\ closeSt = [k \in Closers |-> "idle"]
    /\ late = [k \in Closers |-> FALSE]
    /\ taken = <<>>
    /\ inFeed = <<>>
    /\ errsFeed = <<>>
    /\ sendLog = <<>>
    /\ wire = <<>>

\* `go s.Recv()`: the run task installs its deferred closes and enters the loop.
RecvStart ==
    /\ pc = "new"
    /\ pc' = "select"
    /\ UNCHANGED <<flavor, rejects, cur, exitCause, chunksClosed, closes,
                   closeSt, late, history, taken, inFeed, errsFeed, sendLog, wire>>
    /\ UNCHANGED serverVars

\* select, case chunk := <-s.chunks, with a producer sending chunk c.
RecvChunk(c) ==
    /\ pc = "select"
    /\ ~chunksClosed
    /\ history => Len(taken) < MaxTaken
    /\ pc' = "parse"
    /\ cur' = <<"chunk", c>>
    /\ taken' = Record(taken, c)
    /\ UNCHANGED <<flavor, rejects, exitCause, chunksClosed, closes, closeSt,
                   late, history, inFeed, errsFeed, sendLog, wire>>
    /\ UNCHANGED serverVars

\* The producer closes the chunk channel: the source is exhausted.
CloseChunks ==
    /\ ~chunksClosed
    /\ chunksClosed' = TRUE
    /\ UNCHANGED <<flavor, rejects, pc, cur, exitCause, closes, closeSt, late,
                   history, taken, inFeed, errsFeed, sendLog, wire>>
    /\ UNCHANGED serverVars

\* select, case chunk := <-s.chunks, on the closed channel: the receive has
\* no `ok` test, so it yields the zero value and the case is taken.
RecvClosed ==
    /\ pc = "select"
    /\ chunksClosed
    /\ history => Len(taken) < MaxTaken
    /\ pc' = "parse"
    /\ cur' = <<"chunk", NilChunk>>
    /\ taken' = Record(taken, NilChunk)
    /\ UNCHANGED <<flavor, rejects, exitCause, chunksClosed, closes, closeSt,
                   late, history, inFeed, errsFeed, sendLog, wire>>
    /\ UNCHANGED serverVars

\* Mutant: `break` in the select case, which leaves the select, not the loop.
RecvCloserBreaksSelect(k) ==
    /\ pc = "select"
    /\ closeSt[k] = "sending"
    /\ pc' = "select"
    /\ closeSt' = [closeSt EXCEPT ![k] = "returned"]
    /\ UNCHANGED <<flavor, rejects, cur, exitCause, chunksClosed, closes, late,
                   history, taken, inFeed, errsFeed, sendLog, wire>>
    /\ UNCHANGED serverVars

\* Mutant: the close signal also taken while a chunk is in hand, as if the
\* publishing sends were cases of the select.
RecvCloserWhilePublishing(k) ==
    /\ pc \in {"select", "sendIn", "sendErr"}
    /\ closeSt[k] = "sending"
    /\ pc' = "closeIn"
    /\ exitCause' = "closer"
    /\ cur' = NoValue
    /\ closeSt' = [closeSt EXCEPT ![k] = "returned"]
    /\ UNCHANGED <<flavor, rejects, chunksClosed, closes, late, history,
                   taken, inFeed, errsFeed, sendLog, wire>>
    /\ UNCHANGED serverVars

\* select, case <-s.closer, with Close() caller k sending: the caller
\* returns, the run task returns from the loop.
RecvCloser(k) ==
    /\ pc = "select"
    /\ closeSt[k] = "sending"
    /\ pc' = "closeIn"
    /\ exitCause' = "closer"
    /\ closeSt' = [closeSt EXCEPT ![k] = "returned"]
    /\ UNCHANGED <<flavor, rejects, cur, chunksClosed, closes, late, history,
                   taken, inFeed, errsFeed, sendLog, wire>>
    /\ UNCHANGED serverVars

\* Mutant: the test of the parser's error inverted (err == nil).
ParseChunkInverted ==
    /\ pc = "parse"
    /\ IF flavor = "netstream" /\ cur[2] = NilChunk
       THEN /\ pc' = "closeIn"
            /\ exitCause' = "panic"
            /\ cur' = NoValue
       ELSE /\ pc' = IF Parse(cur).ok THEN "sendErr" ELSE "sendIn"
            /\ cur' = Parse(cur).val
            /\ UNCHANGED exitCause
    /\ UNCHANGED <<flavor, rejects, chunksClosed, closes, closeSt, late,
                   history, taken, inFeed, errsFeed, sendLog, wire>>
    /\ UNCHANGED serverVars

\* s.parser.Parse(chunk). NetStream.Listen reads chunk.Data first, which
\* panics on the nil chunk of a closed channel: the deferred closes then run.
ParseChunk ==
    /\ pc = "parse"
    /\ IF flavor = "netstream" /\ cur[2] = NilChunk
       THEN /\ pc' = "closeIn"
            /\ exitCause' = "panic"
            /\ cur' = NoValue
       ELSE /\ pc' = IF Parse(cur).ok THEN "sendIn" ELSE "sendErr"
            /\ cur' = Parse(cur).val
            /\ UNCHANGED exitCause
    /\ UNCHANGED <<flavor, rejects, chunksClosed, closes, closeSt, late,
                   history, taken, inFeed, errsFeed, sendLog, wire>>
    /\ UNCHANGED serverVars

\* s.in <- data, with a consumer receiving from In().
ReadIn ==
    /\ pc = "sendIn"
    /\ inFeed' = Record(inFeed, cur)
    /\ pc' = "select"
    /\ cur' = NoValue
    /\ UNCHANGED <<flavor, rejects, exitCause, chunksClosed, closes, closeSt,
                   late, history, taken, errsFeed, sendLog, wire>>
    /\ UNCHANGED serverVars

\* Mutant: the `continue` after the send on errs left out, so that the zero
\* message is sent on in as well.
ReadErrsNoContinue ==
    /\ pc = "sendErr"
    /\ errsFeed' = Record(errsFeed, cur)
    /\ pc' = "sendIn"
    /\ cur' = <<"message", NilChunk>>
    /\ UNCHANGED <<flavor, rejects, exitCause, chunksClosed, closes, closeSt,
                   late, history, taken, inFeed, sendLog, wire>>
    /\ UNCHANGED serverVars

\* s.errs <- err; continue, with a consumer receiving from Errs().
ReadErrs ==
    /\ pc = "sendErr"
    /\ errsFeed' = Record(errsFeed, cur)
    /\ pc' = "select"
    /\ cur' = NoValue
    /\ UNCHANGED <<flavor, rejects, exitCause, chunksClosed, closes, closeSt,
                   late, history, taken, inFeed, sendLog, wire>>
    /\ UNCHANGED serverVars

\* The deferred function, first statement: close(s.in).
DeferCloseIn ==
    /\ pc = "closeIn"
    /\ closes' = [closes EXCEPT !["in"] = @ + 1]
    /\ pc' = "closeErrs"
    /\ UNCHANGED <<flavor, rejects, cur, exitCause, chunksClosed, closeSt,
                   late, history, taken, inFeed, errsFeed, sendLog, wire>>
    /\ UNCHANGED serverVars

\* Mutant: close(s.in) repeated in place of close(s.errs).
DeferCloseInAgain ==
    /\ pc = "closeErrs"
    /\ closes' = [closes EXCEPT !["in"] = @ + 1]
    /\ pc' = "closeCloser"
    /\ UNCHANGED <<flavor, rejects, cur, exitCause, chunksClosed, closeSt,
                   late, history, taken, inFeed, errsFeed, sendLog, wire>>
    /\ UNCHANGED serverVars

\* The deferred function, second statement: close(s.errs).
DeferCloseErrs ==
    /\ pc = "closeErrs"
    /\ closes' = [closes EXCEPT !["errs"] = @ + 1]
    /\ pc' = "closeCloser"
    /\ UNCHANGED <<flavor, rejects, cur, exitCause, chunksClosed, closeSt,
                   late, history, taken, inFeed, errsFeed, sendLog, wire>>
    /\ UNCHANGED serverVars

\* Mutant: close(s.closer) left out of the deferred function.
DeferLeavesCloserOpen ==
    /\ pc = "closeCloser"
    /\ pc' = IF exitCause = "panic" THEN "panicked" ELSE "done"
    /\ UNCHANGED <<flavor, rejects, cur, exitCause, chunksClosed, closes,
                   closeSt, late, history, taken, inFeed, errsFeed, sendLog, wire>>
    /\ UNCHANGED serverVars

\* The deferred function, third statement: close(s.closer). A Close() caller
\* blocked in its send on the channel panics (send on closed channel).
DeferCloseCloser ==
    /\ pc = "closeCloser"
    /\ closes' = [closes EXCEPT !["closer"] = @ + 1]
    /\ closeSt' = [k \in Closers |->
                     IF closeSt[k] = "sending" THEN "panicked" ELSE closeSt[k]]
    /\ pc' = IF exitCause = "panic" THEN "panicked" ELSE "done"
    /\ UNCHANGED <<flavor, rejects, cur, exitCause, chunksClosed, late,
                   history, taken, inFeed, errsFeed, sendLog, wire>>
    /\ UNCHANGED serverVars

\* Close(): s.closer <- struct{}{}. The send blocks until the run task
\* receives it; on the closed channel it panics.
StreamClose(k) ==
    /\ closeSt[k] = "idle"
    /\ closeSt' = [closeSt EXCEPT ![k] =
                     IF closes["closer"] > 0 THEN "panicked" ELSE "sending"]
    /\ late' = [late EXCEPT ![k] = Exited]
    /\ UNCHANGED <<flavor, rejects, pc, cur, exitCause, chunksClosed, closes,
                   history, taken, inFeed, errsFeed, sendLog, wire>>
    /\ UNCHANGED serverVars

\* Mutant: the encoding error ignored, the chunk written all the same.
SendIgnoresEncodeError(m, w) ==
    /\ history => Len(sendLog) < MaxSends
    /\ wire' = Record(wire, [chunk |-> Encode(m).chunk, res |-> w])
    /\ sendLog' = Record(sendLog, [msg |-> m, res |-> w])
    /\ UNCHANGED <<flavor, rejects, pc, cur, exitCause, chunksClosed, closes,
                   closeSt, late, history, taken, inFeed, errsFeed>>
    /\ UNCHANGED serverVars

\* Send / Write / WriteStatus of message m, the writer answering w.
Send(m, w) ==
    /\ history => Len(sendLog) < MaxSends
    /\ IF Encode(m).ok
       THEN /\ wire' = Record(wire, [chunk |-> Encode(m).chunk, res |-> w])
            /\ sendLog' = Record(sendLog, [msg |-> m, res |-> w])
       ELSE /\ wire' = wire
            /\ sendLog' = Record(sendLog, [msg |-> m, res |-> Encode(m).err])
    /\ UNCHANGED <<flavor, rejects, pc, cur, exitCause, chunksClosed, closes,
                   closeSt, late, history, taken, inFeed, errsFeed>>
    /\ UNCHANGED serverVars

StreamNext ==
    \/ RecvStart
    \/ \E c \in Chunks : RecvChunk(c)
    \/ CloseChunks
    \/ RecvClosed
    \/ \E k \in Closers : RecvCloser(k)
    \/ ParseChunk
    \/ ReadIn
    \/ ReadErrs
    \/ DeferCloseIn
    \/ DeferCloseErrs
    \/ DeferCloseCloser
    \/ \E k \in Closers : StreamClose(k)
    \/ \E m \in Messages, w \in WriteResults : Send(m, w)

vars == <<streamVars, serverVars>>

States == {"idle", "accepting", "closing", "releasing", "closed"}
Accepters == 1..MaxAccepts
CloseCallers == 1..MaxCloseCalls
ReleaseCallers == 1..MaxReleaseCalls
NoHolder == <<"none", 0>>
\* The channels NewSocket makes; release is never used afterwards.
ServerChannels == {"clients", "errs", "release"}
\* The listener the server was constructed with.
Listener == "listener"

\* An accept error: whether it is a net.Error and, if it is, what its
\* Timeout(), isNetCloseError() and Temporary() answer.
NoErr == [nil |-> TRUE, net |-> FALSE, timeout |-> FALSE, closed |-> FALSE,
          temporary |-> FALSE]
NetErr(t, c, tmp) == [nil |-> FALSE, net |-> TRUE, timeout |-> t, closed |-> c,
                      temporary |-> tmp]
\* "use of closed network connection": accept on the closed listener.
ErrClosed == NetErr(FALSE, TRUE, FALSE)
\* The deadline has passed (a timeout is a temporary error in package net).
ErrTimeout == NetErr(TRUE, FALSE, TRUE)
\* A transient failure such as too many open files.
ErrTemporary == NetErr(FALSE, FALSE, TRUE)
\* Any other network failure.
ErrFatal == NetErr(FALSE, FALSE, FALSE)
\* An error that is no net.Error.
ErrNotNet == [nil |-> FALSE, net |-> FALSE, timeout |-> FALSE, closed |-> FALSE,
              temporary |-> FALSE]

\* What s.socket.Accept() can fail with: on the closed listener the closed
\* error, past the deadline the timeout, otherwise a failure of its own.
AcceptErrors ==
    IF sockClosed THEN {ErrClosed}
    ELSE IF deadlinePast THEN {ErrTimeout}
    ELSE {ErrTemporary, ErrFatal}

\* handleError's decision for error e in state st: "kill" ends the loop and
\* emits nothing, "emit" sends e and goes on, "fatal" sends fatalError{e} and
\* ends the loop. An error that is no net.Error is sent, and then the nil
\* nerr is used (nerr.Timeout(), isNetCloseError(nerr) or nerr.Temporary()),
\* which panics in every state.
Classify(st, e) ==
    IF ~e.net THEN "emitThenPanic"
    ELSE IF st = "releasing" /\ e.timeout THEN "kill"
    ELSE IF st = "closing" /\ e.closed THEN "kill"
    ELSE IF e.temporary THEN "emit"
    ELSE "fatal"

\* scond.Broadcast(): every caller suspended in scond.Wait() is made
\* runnable; it returns from Wait() once it has the mutex again.
Broadcast(pcs) == [p \in DOMAIN pcs |-> IF pcs[p] = "waiting" THEN "woken" ELSE pcs[p]]

ServerInit ==
    /\ state = "idle"
    /\ mu = NoHolder
    /\ sockClosed = FALSE
    /\ deadlinePast = FALSE
    /\ apc = [a \in Accepters |-> "idle"]
    /\ aerr = [a \in Accepters |-> NoErr]
    /\ aconn = [a \in Accepters |-> 0]
    /\ cpc = [c \in CloseCallers |-> "idle"]
    /\ cAtAccept = [c \in CloseCallers |-> FALSE]
    /\ rpc = [r \in ReleaseCallers |-> "idle"]
    /\ rAtAccept = [r \in ReleaseCallers |-> FALSE]
    /\ rret = [r \in ReleaseCallers |-> <<"none", FALSE>>]
    /\ nconn = 0
    /\ clientsFeed = <<>>
    /\ serrsFeed = <<>>
    /\ feedCloses = [ch \in ServerChannels |-> 0]

\* Some Accept task is blocked in s.socket.Accept() while the state is
\* accepting.
BlockedInAccept == state = "accepting" /\ \E a \in Accepters : apc[a] = "accept"

\* Mutant: setState(accepting) in place of setStateIf(accepting, v == idle).
AcceptEnterUnguarded(a) ==
    /\ apc[a] = "idle"
    /\ mu = NoHolder
    /\ state' = "accepting"
    /\ cpc' = Broadcast(cpc)
    /\ rpc' = Broadcast(rpc)
    /\ apc' = [apc EXCEPT ![a] = "accept"]
    /\ UNCHANGED <<mu, sockClosed, deadlinePast, aerr, aconn, cAtAccept,
                   rAtAccept, rret, nconn, clientsFeed, serrsFeed>>
    /\ UNCHANGED <<feedCloses, streamVars>>

\* Accept(), entry: setStateIf(accepting, v == idle), and the return when it
\* answers false.
AcceptEnter(a) ==
    /\ apc[a] = "idle"
    /\ mu = NoHolder
    /\ IF state = "idle"
       THEN /\ state' = "accepting"
            /\ cpc' = Broadcast(cpc)
            /\ rpc' = Broadcast(rpc)
            /\ apc' = [apc EXCEPT ![a] = "accept"]
       ELSE /\ apc' = [apc EXCEPT ![a] = "refused"]
            /\ UNCHANGED <<state, cpc, rpc>>
    /\ UNCHANGED <<mu, sockClosed, deadlinePast, aerr, aconn, cAtAccept,
                   rAtAccept, rret, nconn, clientsFeed, serrsFeed>>
    /\ UNCHANGED <<feedCloses, streamVars>>

\* conn, err := s.socket.Accept() returns a connection.
AcceptConn(a) ==
    /\ apc[a] = "accept"
    /\ ~sockClosed
    /\ ~deadlinePast
    /\ history => nconn < MaxConns
    /\ nconn' = IF history THEN nconn + 1 ELSE nconn
    /\ aconn' = [aconn EXCEPT ![a] = nconn']
    /\ apc' = [apc EXCEPT ![a] = "sendClient"]
    /\ UNCHANGED <<state, mu, sockClosed, deadlinePast, aerr, cpc, cAtAccept,
                   rpc, rAtAccept, rret, clientsFeed, serrsFeed>>
    /\ UNCHANGED <<feedCloses, streamVars>>

\* conn, err := s.socket.Accept() returns the error e.
AcceptFail(a, e) ==
    /\ apc[a] = "accept"
    /\ e \in AcceptErrors
    /\ aerr' = [aerr EXCEPT ![a] = e]
    /\ apc' = [apc EXCEPT ![a] = "handle"]
    /\ UNCHANGED <<state, mu, sockClosed, deadlinePast, aconn, cpc, cAtAccept,
                   rpc, rAtAccept, rret, nconn, clientsFeed, serrsFeed>>
    /\ UNCHANGED <<feedCloses, streamVars>>

\* Mutant: the connection in hand given up once a shutdown has begun.
ReadClientDropsOnShutdown(a) ==
    /\ apc[a] = "sendClient"
    /\ clientsFeed' = IF state = "accepting"
                      THEN Record(clientsFeed, aconn[a])
                      ELSE clientsFeed
    /\ aconn' = [aconn EXCEPT ![a] = 0]
    /\ apc' = [apc EXCEPT ![a] = "accept"]
    /\ UNCHANGED <<state, mu, sockClosed, deadlinePast, aerr, cpc, cAtAccept,
                   rpc, rAtAccept, rret, nconn, serrsFeed>>
    /\ UNCHANGED <<feedCloses, streamVars>>

\* s.clients <- client.New(conn), with a consumer receiving from Clients().
ReadClient(a) ==
    /\ apc[a] = "sendClient"
    /\ clientsFeed' = Record(clientsFeed, aconn[a])
    /\ aconn' = [aconn EXCEPT ![a] = 0]
    /\ apc' = [apc EXCEPT ![a] = "accept"]
    /\ UNCHANGED <<state, mu, sockClosed, deadlinePast, aerr, cpc, cAtAccept,
                   rpc, rAtAccept, rret, nconn, serrsFeed>>
    /\ UNCHANGED <<feedCloses, streamVars>>

\* Mutant: the test for the closed listener's error left out of handleError.
HandleErrorNoCloseCase(a) ==
    /\ apc[a] = "handle"
    /\ mu = NoHolder
    /\ LET v == IF state = "releasing" /\ aerr[a].timeout THEN "kill"
                ELSE IF aerr[a].temporary THEN "emit" ELSE "fatal" IN
       /\ (history /\ v # "kill") => Len(serrsFeed) < MaxErrs
       /\ apc' = [apc EXCEPT ![a] =
                    CASE v = "kill" -> "setClosed"
                      [] v = "emit" -> "sendTemp"
                      [] v = "fatal" -> "sendFatal"]
       /\ mu' = IF v = "kill" THEN NoHolder ELSE <<"accept", a>>
       /\ aerr' = [aerr EXCEPT ![a] = IF v = "kill" THEN NoErr ELSE @]
    /\ UNCHANGED <<state, sockClosed, deadlinePast, aconn, cpc, cAtAccept, rpc,
                   rAtAccept, rret, nconn, clientsFeed, serrsFeed>>
    /\ UNCHANGED <<feedCloses, streamVars>>

\* Mutant: the test for the release timeout left out of handleError.
HandleErrorNoReleaseCase(a) ==
    /\ apc[a] = "handle"
    /\ mu = NoHolder
    /\ LET v == IF state = "closing" /\ aerr[a].closed THEN "kill"
                ELSE IF aerr[a].temporary THEN "emit" ELSE "fatal" IN
       /\ (history /\ v # "kill") => Len(serrsFeed) < MaxErrs
       /\ apc' = [apc EXCEPT ![a] =
                    CASE v = "kill" -> "setClosed"
                      [] v = "emit" -> "sendTemp"
                      [] v = "fatal" -> "sendFatal"]
       /\ mu' = IF v = "kill" THEN NoHolder ELSE <<"accept", a>>
       /\ aerr' = [aerr EXCEPT ![a] = IF v = "kill" THEN NoErr ELSE @]
    /\ UNCHANGED <<state, sockClosed, deadlinePast, aconn, cpc, cAtAccept, rpc,
                   rAtAccept, rret, nconn, clientsFeed, serrsFeed>>
    /\ UNCHANGED <<feedCloses, streamVars>>

\* Mutant: handleError testing Temporary() before the two shutdown cases.
HandleErrorTemporaryFirst(a) ==
    /\ apc[a] = "handle"
    /\ mu = NoHolder
    /\ LET v == IF ~aerr[a].net THEN "emitThenPanic"
                ELSE IF aerr[a].temporary THEN "emit"
                ELSE Classify(state, aerr[a]) IN
       /\ (history /\ v # "kill") => Len(serrsFeed) < MaxErrs
       /\ apc' = [apc EXCEPT ![a] =
                    CASE v = "kill" -> "setClosed"
                      [] v = "emit" -> "sendTemp"
                      [] v = "fatal" -> "sendFatal"
                      [] v = "emitThenPanic" -> "sendNotNet"]
       /\ mu' = IF v = "kill" THEN NoHolder ELSE <<"accept", a>>
       /\ aerr' = [aerr EXCEPT ![a] = IF v = "kill" THEN NoErr ELSE @]
    /\ UNCHANGED <<state, sockClosed, deadlinePast, aconn, cpc, cAtAccept, rpc,
                   rAtAccept, rret, nconn, clientsFeed, serrsFeed>>
    /\ UNCHANGED <<feedCloses, streamVars>>

\* handleError(err), from its Lock() to its return or to the send it blocks
\* in. The mutex stays held while the task waits for a reader of Errs().
HandleError(a) ==
    /\ apc[a] = "handle"
    /\ mu = NoHolder
    /\ LET v == Classify(state, aerr[a]) IN
       /\ (history /\ v # "kill") => Len(serrsFeed) < MaxErrs
       /\ apc' = [apc EXCEPT ![a] =
                    CASE v = "kill" -> "setClosed"
                      [] v = "emit" -> "sendTemp"
                      [] v = "fatal" -> "sendFatal"
                      [] v = "emitThenPanic" -> "sendNotNet"]
       /\ mu' = IF v = "kill" THEN NoHolder ELSE <<"accept", a>>
       /\ aerr' = [aerr EXCEPT ![a] = IF v = "kill" THEN NoErr ELSE @]
    /\ UNCHANGED <<state, sockClosed, deadlinePast, aconn, cpc, cAtAccept, rpc,
                   rAtAccept, rret, nconn, clientsFeed, serrsFeed>>
    /\ UNCHANGED <<feedCloses, streamVars>>

\* Mutant: handleError returning false after the fatal error was sent.
ReadErrFatalGoesOn(a) ==
    /\ apc[a] \in {"sendTemp", "sendFatal", "sendNotNet"}
    /\ serrsFeed' = Record(serrsFeed,
                           [err |-> aerr[a], fatal |-> apc[a] = "sendFatal"])
    /\ apc' = [apc EXCEPT ![a] =
                 CASE apc[a] = "sendTemp" -> "accept"
                   [] apc[a] = "sendFatal" -> "accept"
                   [] apc[a] = "sendNotNet" -> "unwind"]
    /\ aerr' = [aerr EXCEPT ![a] = NoErr]
    /\ mu' = NoHolder
    /\ UNCHANGED <<state, sockClosed, deadlinePast, aconn, cpc, cAtAccept, rpc,
                   rAtAccept, rret, nconn, clientsFeed>>
    /\ UNCHANGED <<feedCloses, streamVars>>

\* s.errs <- err or s.errs <- fatalError{err}, with a consumer receiving
\* from Errs(); then handleError returns (deferred Unlock()): to the loop
\* after a temporary error, out of the loop after a fatal one, and by a
\* panic after an error that is no net.Error.
ReadErr(a) ==
    /\ apc[a] \in {"sendTemp", "sendFatal", "sendNotNet"}
    /\ serrsFeed' = Record(serrsFeed,
                           [err |-> aerr[a], fatal |-> apc[a] = "sendFatal"])
    /\ apc' = [apc EXCEPT ![a] =
                 CASE apc[a] = "sendTemp" -> "accept"
                   [] apc[a] = "sendFatal" -> "setClosed"
                   [] apc[a] = "sendNotNet" -> "unwind"]
    /\ aerr' = [aerr EXCEPT ![a] = NoErr]
    /\ mu' = NoHolder
    /\ UNCHANGED <<state, sockClosed, deadlinePast, aconn, cpc, cAtAccept, rpc,
                   rAtAccept, rret, nconn, clientsFeed>>
    /\ UNCHANGED <<feedCloses, streamVars>>

\* The deferred s.setState(closed) of Accept(): the state is set and the
\* condition broadcast; the task returns, or goes on panicking.
SetClosed(a) ==
    /\ apc[a] \in {"setClosed", "unwind"}
    /\ mu = NoHolder
    /\ state' = "closed"
    /\ cpc' = Broadcast(cpc)
    /\ rpc' = Broadcast(rpc)
    /\ apc' = [apc EXCEPT ![a] = IF apc[a] = "unwind" THEN "panicked" ELSE "done"]
    /\ UNCHANGED <<mu, sockClosed, deadlinePast, aerr, aconn, cAtAccept,
                   rAtAccept, rret, nconn, clientsFeed, serrsFeed>>
    /\ UNCHANGED <<feedCloses, streamVars>>

\* Close(), s.scond.L.Lock() while the mutex is held: the caller blocks in
\* Lock() until the holder unlocks.
CloseBlocks(c) ==
    /\ cpc[c] = "idle"
    /\ mu # NoHolder
    /\ cpc' = [cpc EXCEPT ![c] = "locking"]
    /\ UNCHANGED <<state, mu, sockClosed, deadlinePast, apc, aerr, aconn,
                   cAtAccept, rpc, rAtAccept, rret, nconn, clientsFeed,
                   serrsFeed>>
    /\ UNCHANGED <<feedCloses, streamVars>>

\* Release(), s.scond.L.Lock() while the mutex is held.
ReleaseBlocks(r) ==
    /\ rpc[r] = "idle"
    /\ mu # NoHolder
    /\ rpc' = [rpc EXCEPT ![r] = "locking"]
    /\ UNCHANGED <<state, mu, sockClosed, deadlinePast, apc, aerr, aconn, cpc,
                   cAtAccept, rAtAccept, rret, nconn, clientsFeed, serrsFeed>>
    /\ UNCHANGED <<feedCloses, streamVars>>

\* Mutant: Close() without the test of the state, always closing and waiting.
ServerCloseUnconditional(c) ==
    /\ cpc[c] \in {"idle", "locking"}
    /\ mu = NoHolder
    /\ cAtAccept' = [cAtAccept EXCEPT ![c] = BlockedInAccept]
    /\ IF sockClosed
       THEN /\ cpc' = [cpc EXCEPT ![c] = "failed"]
            /\ UNCHANGED <<state, sockClosed>>
       ELSE /\ sockClosed' = TRUE
            /\ state' = "closing"
            /\ cpc' = [cpc EXCEPT ![c] = "waiting"]
    /\ UNCHANGED <<mu, deadlinePast, apc, aerr, aconn, rpc, rAtAccept, rret,
                   nconn, clientsFeed, serrsFeed>>
    /\ UNCHANGED <<feedCloses, streamVars>>

\* Close(), from Lock() obtained (at once, or after blocking in it) to its
\* return or to scond.Wait() in waitForState. Closing the closed listener
\* fails, and Close() returns that error.
ServerClose(c) ==
    /\ cpc[c] \in {"idle", "locking"}
    /\ mu = NoHolder
    /\ cAtAccept' = [cAtAccept EXCEPT ![c] = BlockedInAccept]
    /\ IF sockClosed
       THEN /\ cpc' = [cpc EXCEPT ![c] = "failed"]
            /\ UNCHANGED <<state, sockClosed>>
       ELSE /\ sockClosed' = TRUE
            /\ IF state # "accepting"
               THEN /\ state' = "closed"
                    /\ cpc' = [cpc EXCEPT ![c] = "returned"]
               ELSE /\ state' = "closing"
                    /\ cpc' = [cpc EXCEPT ![c] = "waiting"]
    /\ UNCHANGED <<mu, deadlinePast, apc, aerr, aconn, rpc, rAtAccept, rret,
                   nconn, clientsFeed, serrsFeed>>
    /\ UNCHANGED <<feedCloses, streamVars>>

\* waitForState(closed) in Close(), after a broadcast: Wait() returns with
\* the mutex, the state is tested, and Close() returns or waits again.
CloseWake(c) ==
    /\ cpc[c] = "woken"
    /\ mu = NoHolder
    /\ cpc' = [cpc EXCEPT ![c] = IF state = "closed" THEN "returned" ELSE "waiting"]
    /\ UNCHANGED <<state, mu, sockClosed, deadlinePast, apc, aerr, aconn,
                   cAtAccept, rpc, rAtAccept, rret, nconn, clientsFeed,
                   serrsFeed>>
    /\ UNCHANGED <<feedCloses, streamVars>>

\* Mutant: Release() closing the listener, as Close() does.
ServerReleaseClosesSocket(r) ==
    /\ rpc[r] \in {"idle", "locking"}
    /\ mu = NoHolder
    /\ rAtAccept' = [rAtAccept EXCEPT ![r] = BlockedInAccept]
    /\ sockClosed' = TRUE
    /\ IF state # "accepting"
       THEN /\ state' = "closed"
            /\ rpc' = [rpc EXCEPT ![r] = "returned"]
            /\ rret' = [rret EXCEPT ![r] = <<Listener, FALSE>>]
            /\ UNCHANGED deadlinePast
       ELSE /\ state' = "releasing"
            /\ deadlinePast' = deadlinePast
            /\ rpc' = [rpc EXCEPT ![r] = "waiting"]
            /\ UNCHANGED rret
    /\ UNCHANGED <<mu, apc, aerr, aconn, cpc, cAtAccept, nconn, clientsFeed, serrsFeed>>
    /\ UNCHANGED <<feedCloses, streamVars>>

\* Mutant: Release() without the test of the state, always releasing.
ServerReleaseUnconditional(r) ==
    /\ rpc[r] \in {"idle", "locking"}
    /\ mu = NoHolder
    /\ rAtAccept' = [rAtAccept EXCEPT ![r] = BlockedInAccept]
    /\ state' = "releasing"
    /\ deadlinePast' = IF sockClosed THEN deadlinePast ELSE TRUE
    /\ rpc' = [rpc EXCEPT ![r] = "waiting"]
    /\ UNCHANGED rret
    /\ UNCHANGED <<mu, sockClosed, apc, aerr, aconn, cpc, cAtAccept, nconn,
                   clientsFeed, serrsFeed>>
    /\ UNCHANGED <<feedCloses, streamVars>>

\* Release(), from Lock() obtained (at once, or after blocking in it) to
\* its return or to scond.Wait() in waitForState.
\* What it returns is s.socket; rret also notes whether it is still open.
ServerRelease(r) ==
    /\ rpc[r] \in {"idle", "locking"}
    /\ mu = NoHolder
    /\ rAtAccept' = [rAtAccept EXCEPT ![r] = BlockedInAccept]
    /\ IF state # "accepting"
       THEN /\ state' = "closed"
            /\ rpc' = [rpc EXCEPT ![r] = "returned"]
            /\ rret' = [rret EXCEPT ![r] = <<Listener, ~sockClosed>>]
            /\ UNCHANGED deadlinePast
       ELSE /\ state' = "releasing"
            /\ deadlinePast' = IF sockClosed THEN deadlinePast ELSE TRUE
            /\ rpc' = [rpc EXCEPT ![r] = "waiting"]
            /\ UNCHANGED rret
    /\ UNCHANGED <<mu, sockClosed, apc, aerr, aconn, cpc, cAtAccept, nconn,
                   clientsFeed, serrsFeed>>
    /\ UNCHANGED <<feedCloses, streamVars>>

\* waitForState(closed) in Release(), after a broadcast.
ReleaseWake(r) ==
    /\ rpc[r] = "woken"
    /\ mu = NoHolder
    /\ IF state = "closed"
       THEN /\ rpc' = [rpc EXCEPT ![r] = "returned"]
            /\ rret' = [rret EXCEPT ![r] = <<Listener, ~sockClosed>>]
       ELSE /\ rpc' = [rpc EXCEPT ![r] = "waiting"]
            /\ UNCHANGED rret
    /\ UNCHANGED <<state, mu, sockClosed, deadlinePast, apc, aerr, aconn, cpc,
                   cAtAccept, rAtAccept, nconn, clientsFeed, serrsFeed>>
    /\ UNCHANGED <<feedCloses, streamVars>>

ServerNext ==
    \/ \E a \in Accepters : AcceptEnter(a)
    \/ \E a \in Accepters : AcceptConn(a)
    \/ \E a \in Accepters, e \in {ErrClosed, ErrTimeout, ErrTemporary, ErrFatal} :
          AcceptFail(a, e)
    \/ \E a \in Accepters : ReadClient(a)
    \/ \E a \in Accepters : HandleError(a)
    \/ \E a \in Accepters : ReadErr(a)
    \/ \E a \in Accepters : SetClosed(a)
    \/ \E c \in CloseCallers : CloseBlocks(c)
    \/ \E r \in ReleaseCallers : ReleaseBlocks(r)
    \/ \E c \in CloseCallers : ServerClose(c)
    \/ \E c \in CloseCallers : CloseWake(c)
    \/ \E r \in ReleaseCallers : ServerRelease(r)
    \/ \E r \in ReleaseCallers : ReleaseWake(r)

\* The message stream as constructed, held still in the server's
\* specifications.
StreamStill ==
    /\ StreamInitCommon
    /\ flavor = "data"
    /\ rejects = {}

\* The server, with the histories recorded.
ServerSpecInit == ServerInit /\ StreamStill /\ history = TRUE

ServerSpec == ServerSpecInit /\ [][ServerNext]_vars

\* The server without the histories. Fairness: the scheduler runs a runnable
\* task (the Accept task classifying an error and setting the state, a woken
\* waiter), a free mutex is obtained, and an accept call on a closed
\* listener or past the deadline returns its error. Nothing is assumed of
\* the consumers, of incoming connections or of the callers.
ServerLiveInit == ServerInit /\ StreamStill /\ history = FALSE

ServerLiveSpec ==
    /\ ServerLiveInit
    /\ [][ServerNext]_vars
    /\ WF_vars(\E a \in Accepters : AcceptFail(a, ErrClosed))
    /\ WF_vars(\E a \in Accepters : AcceptFail(a, ErrTimeout))
    /\ WF_vars(\E a \in Accepters : HandleError(a))
    /\ WF_vars(\E a \in Accepters : SetClosed(a))
    /\ WF_vars(\E c \in CloseCallers : CloseWake(c))
    /\ WF_vars(\E r \in ReleaseCallers : ReleaseWake(r))

\* The message stream alone: the server stays as constructed.
Init == StreamInitCommon /\ history = TRUE /\ ServerInit

Next == StreamNext

\* The message stream, with the histories recorded.
Spec == Init /\ [][Next]_vars

\* The message stream without the histories, so that a run loop that spins
\* is a cycle of states. Fairness: the Go scheduler runs a runnable run task
\* (weak fairness of its own steps), and select picks among its ready cases
\* at random, so a close signal that is ready again and again is eventually
\* taken (strong fairness); a receive from the closed chunk channel is
\* always ready. Nothing is assumed of the producer, the consumers or the
\* callers.
LiveInit == StreamInitCommon /\ history = FALSE /\ ServerInit

LiveSpec ==
    /\ LiveInit
    /\ [][Next]_vars
    /\ WF_vars(RecvClosed)
    /\ WF_vars(ParseChunk)
    /\ WF_vars(DeferCloseIn)
    /\ WF_vars(DeferCloseErrs)
    /\ WF_vars(DeferCloseCloser)
    /\ SF_vars(\E k \in Closers : RecvCloser(k))

\* ------------------------------------------------------------- claims
\* (C1 to C7: the message streams)
\* The run task is in its loop.
Running == pc \in {"select", "parse", "sendIn", "sendErr"}
\* The run task has returned and both feeds are closed.
Returned == pc \in {"done", "panicked"} /\ closes["in"] = 1 /\ closes["errs"] = 1
\* Consumers drain the feeds: a publication that waits for a reader is read.
Drained == WF_vars(ReadIn) /\ WF_vars(ReadErrs)
Accepted(c) == c \notin rejects
Rejected(c) == c \in rejects
MessagesOf(s) == [i \in 1..Len(s) |-> <<"message", s[i]>>]
ErrorsOf(s) == [i \in 1..Len(s) |-> <<"parseError", s[i]>>]
\* The chunks whose handling is over: all taken ones but one in hand.
Handled == SubSeq(taken, 1, Len(inFeed) + Len(errsFeed))

\* C1: with a parser that fails on no chunk, the messages read from In() are
\* the parse results of the chunks taken, in order; once nothing is in hand
\* there are as many messages as chunks taken; Errs() has published nothing.
C1_AllParsedInOrder ==
    rejects = {} =>
        /\ errsFeed = <<>>
        /\ Len(inFeed) <= Len(taken)
        /\ inFeed = MessagesOf(SubSeq(taken, 1, Len(inFeed)))
        /\ (pc = "select" \/ exitCause = "closer") => Len(inFeed) = Len(taken)

C1_Witness ==
    /\ rejects = {}
    /\ pc = "select"
    /\ taken = <<"c1", "c2", "c1">>
    /\ Len(inFeed) = 3

\* C2: for any parser, every chunk taken ends in exactly one publication, an
\* error on Errs() if the parser rejects it and a message on In() otherwise,
\* each feed in arrival order; after an error is published the loop selects
\* again.
C2_Feeds ==
    /\ Len(inFeed) + Len(errsFeed) <= Len(taken)
    /\ Len(taken) <= Len(inFeed) + Len(errsFeed) + 1
    /\ (pc = "select" \/ exitCause = "closer")
          => Len(inFeed) + Len(errsFeed) = Len(taken)
    /\ inFeed = MessagesOf(SelectSeq(Handled, Accepted))
    /\ errsFeed = ErrorsOf(SelectSeq(Handled, Rejected))

C2_OnePublicationPerChunk ==
    /\ []C2_Feeds
    /\ [][pc = "sendErr" => pc' \in {"sendErr", "select"}]_vars

C2_Witness ==
    /\ rejects = {"c2"}
    /\ taken = <<"c1", "c2", "c1">>
    /\ errsFeed = <<(<<"parseError", "c2">>)>>
    /\ Len(inFeed) = 2
    /\ pc = "select"

\* Some Close() caller is blocked in its send, having called while the run
\* task was in its loop.
CloseRequested ==
    Running /\ \E k \in Closers : closeSt[k] = "sending" /\ ~late[k]

\* C3 as stated: Close() called while the run loop is running leads to the
\* run task returning with In() and Errs() closed.
C3_CloseEndsRun == CloseRequested ~> Returned

\* C3, amended: the same, provided consumers read what the run task
\* publishes (the run task does not look at the close signal while it waits
\* for a reader of In() or Errs()).
C3_CloseEndsRunWhenDrained == Drained => (CloseRequested ~> Returned)

C3_Witness ==
    /\ pc = "done"
    /\ closes["in"] = 1
    /\ closes["errs"] = 1
    /\ \E k \in Closers : closeSt[k] = "returned" /\ ~late[k]

\* C4: no channel of the stream is closed twice; a channel is closed only in
\* a step of the run task's deferred function; the run task leaves its loop
\* only having received a close signal, or on the nil chunk of a closed
\* chunk channel.
C4_ExitCause ==
    Exited =>
        \/ exitCause = "closer" /\ \E k \in Closers : closeSt[k] = "returned"
        \/ exitCause = "panic" /\ chunksClosed

C4_ClosedOnceByRunTask ==
    /\ [](\A ch \in Channels : closes[ch] <= 1)
    /\ [](pc \in {"done", "panicked"} => \A ch \in Channels : closes[ch] = 1)
    /\ []C4_ExitCause
    /\ [][closes' # closes =>
            /\ pc \in {"closeIn", "closeErrs", "closeCloser"}
            /\ pc' # pc]_vars

C4_Witness ==
    /\ pc = "done"
    /\ exitCause = "closer"
    /\ \A ch \in Channels : closes[ch] = 1

\* C5 as stated: once the chunk channel is closed, a started run task whose
\* feeds are drained returns with In() and Errs() closed, whether or not
\* Close() is called.
C5_ExhaustedSourceEndsRun ==
    Drained => ((chunksClosed /\ Running) ~> Returned)

\* C6 as stated: a Close() call made after the run loop exited stays blocked
\* in its send for ever.
C6_LateCloseBlocksForever ==
    \A k \in Closers : late[k] => closeSt[k] = "sending"

\* C6, amended: a Close() call made after the run loop exited never returns,
\* but it does not stay blocked: once the run task has closed the closer
\* channel (it has finished), the caller has panicked in its send.
C6_LateCloseNeverReturns ==
    \A k \in Closers :
        late[k] =>
            /\ closeSt[k] # "returned"
            /\ pc \in {"done", "panicked"} => closeSt[k] = "panicked"

C6_Witness ==
    /\ pc = "done"
    /\ closeSt[1] = "returned"
    /\ late[2]
    /\ closeSt[2] = "panicked"

\* The writer calls a history of Send calls must have made: one per message
\* that encodes, with that message's chunk and the result the call returned.
RECURSIVE WritesOf(_)
WritesOf(log) ==
    IF log = <<>> THEN <<>>
    ELSE IF Head(log).msg = "bad" THEN WritesOf(Tail(log))
    ELSE <<[chunk |-> <<"chunk", Head(log).msg>>, res |-> Head(log).res]>>
             \o WritesOf(Tail(log))

\* C7: a Send of a message that does not encode returns the encoding error
\* and calls no writer; any other Send calls the writer once with the
\* message's chunk and returns the writer's result; a Send changes nothing
\* of the run task, the feeds, the close signal or the callers of Close().
C7_SendResults ==
    /\ \A i \in 1..Len(sendLog) :
          sendLog[i].msg = "bad" => sendLog[i].res = "encodeError"
    /\ wire = WritesOf(sendLog)

C7_SendEncodesThenWrites ==
    /\ []C7_SendResults
    /\ [][sendLog' # sendLog =>
            UNCHANGED <<pc, cur, exitCause, chunksClosed, closes, closeSt,
                        late, taken, inFeed, errsFeed>>]_vars

C7_Witness ==
    /\ pc = "sendErr"
    /\ sendLog = <<[msg |-> "m1", res |-> "ioerr"]>>
    /\ wire = <<[chunk |-> <<"chunk", "m1">>, res |-> "ioerr"]>>

\* (C8 onwards: the server)
\* The Accept() invocations that went past setStateIf into the loop.
Entered == {a \in Accepters : apc[a] \notin {"idle", "refused"}}

\* C8: of all Accept() invocations on a server at most one ever enters the
\* accept loop; an invocation that does not enter returns in the step that
\* finds the state not idle, changes nothing of the server in that step,
\* and does nothing afterwards (no accept call, nothing published).
C8_OneAcceptLoop ==
    /\ [](Cardinality(Entered) <= 1)
    /\ [][\A a \in Accepters :
            /\ (apc[a] = "idle" /\ apc'[a] # "idle" /\ state # "idle")
                 => /\ apc'[a] = "refused"
                    /\ UNCHANGED <<state, mu, sockClosed, deadlinePast, aerr,
                                   aconn, cpc, rpc, rret, nconn, clientsFeed,
                                   serrsFeed>>
            /\ apc[a] = "refused"
                 => /\ apc'[a] = "refused"
                    /\ aerr'[a] = NoErr
                    /\ aconn'[a] = 0]_vars

C8_Witness ==
    /\ apc[1] = "refused"
    /\ apc[2] = "sendClient"
    /\ state = "accepting"

\* Nobody has called Release().
NoRelease == \A r \in ReleaseCallers : rpc[r] = "idle"
\* Close() caller c called while the Accept task was blocked in the accept
\* call, and no Release() has been called.
CloseOfBlockedAccept(c) == cAtAccept[c] /\ cpc[c] # "idle" /\ NoRelease
\* The Accept task has returned.
AcceptReturned == \E a \in Accepters : apc[a] = "done"

\* C9: when Close() is called while the Accept task is blocked in the
\* accept call and no Release() is called, then: the listener is closed;
\* the accept call's failure is classified in state closing and ends the
\* loop without an error sent; no error is sent on Errs() from the call on;
\* and the Accept task returns, the state becomes closed and Close()
\* returns.
C9_CloseOfBlockedAccept ==
    /\ [](\A c \in CloseCallers : CloseOfBlockedAccept(c) => sockClosed)
    /\ [][(\E c \in CloseCallers : CloseOfBlockedAccept(c))
            => \A a \in Accepters :
                 /\ (apc[a] = "handle" /\ apc'[a] # "handle")
                      => state = "closing" /\ apc'[a] = "setClosed"
                 /\ apc'[a] \notin {"sendTemp", "sendFatal", "sendNotNet"}]_vars
    /\ \A c \in CloseCallers :
          CloseOfBlockedAccept(c)
            ~> (\/ ~NoRelease
                \/ /\ AcceptReturned
                   /\ state = "closed"
                   /\ sockClosed
                   /\ cpc[c] = "returned")

C9_Witness ==
    /\ cAtAccept[1]
    /\ cpc[1] = "returned"
    /\ NoRelease
    /\ AcceptReturned
    /\ state = "closed"
    /\ sockClosed

\* Release() caller r called while the Accept task was blocked in the accept
\* call, and it is the only Close() or Release() call made.
OnlyReleaseOfBlockedAccept(r) ==
    /\ rAtAccept[r]
    /\ rpc[r] # "idle"
    /\ \A q \in ReleaseCallers \ {r} : rpc[q] = "idle"
    /\ \A c \in CloseCallers : cpc[c] = "idle"
OtherShutdownCall(r) ==
    \/ \E q \in ReleaseCallers \ {r} : rpc[q] # "idle"
    \/ \E c \in CloseCallers : cpc[c] # "idle"

ShutdownInduced(x) == x.err.closed \/ x.err.timeout

\* C11: under every interleaving of Accept, Close and Release calls, the
\* timeout or closed-listener failure that a shutdown call induces is never
\* published on Errs(), neither marked fatal nor unmarked.
C11_NoShutdownErrorSurfaced ==
    \A i \in 1..Len(serrsFeed) : ~ShutdownInduced(serrsFeed[i])

\* The Accept task has terminated: it returned from its loop, or panicked.
AcceptTerminated == \E a \in Accepters : apc[a] \in {"done", "panicked"}

\* C12: when the Accept task has terminated (through Close, Release or a
\* fatal error), the Clients() channel and the Errs() channel have each been
\* closed exactly once.
C12_FeedsClosedAtTermination ==
    AcceptTerminated => feedCloses["clients"] = 1 /\ feedCloses["errs"] = 1

\* Close() caller c has returned, with nil or with the listener's error.
CloseReturned(c) == cpc[c] \in {"returned", "failed"}

\* C13: in every step in which a Close() call returns, whatever the state
\* was when it was called and whatever other Close() or Release() calls were
\* made, the state is closed and the listener is closed.
C13_CloseReturnsClosed ==
    [][\A c \in CloseCallers :
         (~CloseReturned(c) /\ CloseReturned(c)')
           => state' = "closed" /\ sockClosed']_vars

\* An Accept task is still running its accept loop on the listener.
InAcceptLoop ==
    \E a \in Accepters :
        apc[a] \in {"accept", "sendClient", "handle", "sendTemp", "sendFatal",
                    "sendNotNet"}

\* C14: in every step in which a Release() call returns, whatever the state
\* was when it was called and whatever other Release() or Close() calls are
\* in progress, the state is closed and no Accept task is still running its
\* accept loop on the returned listener.
C14_ReleaseReturnsUnused ==
    [][\A r \in ReleaseCallers :
         (rpc[r] # "returned" /\ rpc'[r] = "returned")
           => state' = "closed" /\ ~InAcceptLoop']_vars

\* The errors marked fatal that were published on Errs().
FatalsPublished == SelectSeq(serrsFeed, LAMBDA x : x.fatal)
FatalPublished == Len(FatalsPublished) > 0

\* The server with the histories recorded and the scheduler fair, as in
\* ServerLiveSpec.
ServerFairSpec ==
    /\ ServerSpecInit
    /\ [][ServerNext]_vars
    /\ WF_vars(\E a \in Accepters : AcceptFail(a, ErrClosed))
    /\ WF_vars(\E a \in Accepters : AcceptFail(a, ErrTimeout))
    /\ WF_vars(\E a \in Accepters : HandleError(a))
    /\ WF_vars(\E a \in Accepters : SetClosed(a))
    /\ WF_vars(\E c \in CloseCallers : CloseWake(c))
    /\ WF_vars(\E r \in ReleaseCallers : ReleaseWake(r))

\* C15: at most one error marked fatal is ever published on Errs(); once it
\* has been published no Accept task is in or enters the accept call, no
\* further client is published on Clients(), nothing further is published
\* on Errs(), and the state becomes closed.
C15_OneFatalEndsLoop ==
    /\ [](Len(FatalsPublished) <= 1)
    /\ [](FatalPublished =>
            \A a \in Accepters :
                apc[a] \in {"idle", "refused", "setClosed", "done"})
    /\ [][FatalPublished =>
            /\ clientsFeed' = clientsFeed
            /\ serrsFeed' = serrsFeed
            /\ nconn' = nconn]_vars
    /\ FatalPublished ~> (state = "closed")

C15_Witness ==
    /\ FatalPublished
    /\ Len(clientsFeed) = 1
    /\ state = "closed"
    /\ \E a \in Accepters : apc[a] = "done"

\* The connections 1..n, in the order the accept call returned them.
FirstConns(n) == [i \in 1..n |-> i]
\* The connections an Accept task holds, accepted and not yet published.
ConnsInHand == {aconn[a] : a \in Accepters} \ {0}
\* A consumer goes on receiving from Clients().
ClientsRead == WF_vars(\E a \in Accepters : ReadClient(a))

\* C16: the clients received from Clients() are the connections the accept
\* call returned, each once and in acceptance order; a connection not yet
\* published is in the hand of the Accept task that waits for a reader, and
\* no task is at the accept call or beyond the loop while one is in hand; a
\* task leaves that wait only by publishing its connection, whatever Close()
\* and Release() calls are made meanwhile; and with a consumer that goes on
\* receiving, every accepted connection is published.
C16_ClientsInAcceptanceOrder ==
    /\ [](/\ clientsFeed = FirstConns(Len(clientsFeed))
          /\ ConnsInHand = (Len(clientsFeed) + 1)..nconn
          /\ Cardinality(ConnsInHand) <= 1
          /\ \A a \in Accepters :
               /\ aconn[a] # 0 <=> apc[a] = "sendClient"
               /\ apc[a] \in {"accept", "setClosed", "done"}
                    => Len(clientsFeed) = nconn)
    /\ [][\A a \in Accepters :
            (apc[a] = "sendClient" /\ apc'[a] # "sendClient")
              => /\ clientsFeed' = Append(clientsFeed, aconn[a])
                 /\ apc'[a] = "accept"]_vars
    /\ ClientsRead =>
         \A n \in 1..MaxConns :
            (n \in ConnsInHand) ~> (\E i \in 1..Len(clientsFeed) : clientsFeed[i] = n)

\* Close() was called while the Accept task waited for a reader of
\* Clients(); the connection has been published since.
C16_Witness ==
    /\ clientsFeed = <<1>>
    /\ nconn = 1
    /\ serrsFeed = <<>>
    /\ state = "closing"
    /\ cpc[1] = "waiting"
    /\ ~cAtAccept[1]
    /\ \E a \in Accepters : apc[a] = "accept"

\* Every error a net.Error can be: Timeout(), isNetCloseError() and
\* Temporary() answer independently of each other.
NetErrors == {NetErr(t, c, tmp) : t \in BOOLEAN, c \in BOOLEAN, tmp \in BOOLEAN}
\* Every error handleError can be called with.
AnyErrors == NetErrors \cup {ErrNotNet}

\* conn, err := s.socket.Accept() returns an error, any error at all.
AcceptFailAny(a, e) ==
    /\ apc[a] = "accept"
    /\ aerr' = [aerr EXCEPT ![a] = e]
    /\ apc' = [apc EXCEPT ![a] = "handle"]
    /\ UNCHANGED <<state, mu, sockClosed, deadlinePast, aconn, cpc, cAtAccept,
                   rpc, rAtAccept, rret, nconn, clientsFeed, serrsFeed>>
    /\ UNCHANGED <<feedCloses, streamVars>>

HandleNext ==
    \/ \E a \in Accepters : AcceptEnter(a)
    \/ \E a \in Accepters, e \in AnyErrors : AcceptFailAny(a, e)
    \/ \E a \in Accepters : HandleError(a)
    \/ \E a \in Accepters : ReadErr(a)
    \/ \E a \in Accepters : SetClosed(a)
    \/ \E c \in CloseCallers : CloseBlocks(c)
    \/ \E r \in ReleaseCallers : ReleaseBlocks(r)
    \/ \E c \in CloseCallers : ServerClose(c)
    \/ \E c \in CloseCallers : CloseWake(c)
    \/ \E r \in ReleaseCallers : ServerRelease(r)
    \/ \E r \in ReleaseCallers : ReleaseWake(r)

\* handleError on every error in every state the shutdown calls can leave:
\* the server with the histories recorded, no connection arriving, and the
\* accept call failing with whatever error.
HandleSpec == ServerSpecInit /\ [][HandleNext]_vars

\* The decision C17 states for a network-layer error e in state st.
C17_Decision(st, e) ==
    IF st = "releasing" /\ e.timeout THEN "silent"
    ELSE IF st = "closing" /\ e.closed THEN "silent"
    ELSE IF e.temporary THEN "nonfatal"
    ELSE "fatal"

\* C17: for a network-layer accept error e, in every state and for every
\* combination of e's attributes, handleError decides as C17_Decision says:
\* silent, the loop ends and nothing is sent; nonfatal, e is sent once on
\* Errs() unmarked and the task goes back to the accept call; fatal, e is
\* sent once marked fatal and the loop ends.
C17_HandleErrorDecides ==
    [][\A a \in Accepters :
         /\ (apc[a] = "handle" /\ apc'[a] # "handle" /\ aerr[a].net)
              => /\ serrsFeed' = serrsFeed
                 /\ apc'[a] = CASE C17_Decision(state, aerr[a]) = "silent" -> "setClosed"
                                [] C17_Decision(state, aerr[a]) = "nonfatal" -> "sendTemp"
                                [] C17_Decision(state, aerr[a]) = "fatal" -> "sendFatal"
                 /\ apc'[a] # "setClosed" => aerr'[a] = aerr[a]
         /\ (apc[a] = "sendTemp" /\ apc'[a] # "sendTemp")
              => /\ serrsFeed' = Append(serrsFeed, [err |-> aerr[a], fatal |-> FALSE])
                 /\ apc'[a] = "accept"
         /\ (apc[a] = "sendFatal" /\ apc'[a] # "sendFatal")
              => /\ serrsFeed' = Append(serrsFeed, [err |-> aerr[a], fatal |-> TRUE])
                 /\ apc'[a] = "setClosed"
         /\ apc[a] \in {"sendTemp", "sendFatal"} => aerr'[a] \in {aerr[a], NoErr}
         /\ apc[a] = "setClosed"
              => /\ serrsFeed' = serrsFeed
                 /\ apc'[a] \in {"setClosed", "done"}]_vars

\* A timeout met outside releasing was sent unmarked and the loop went on;
\* the closed listener's error met in closing then ended it silently.
C17_Witness ==
    /\ serrsFeed = <<[err |-> NetErr(TRUE, FALSE, TRUE), fatal |-> FALSE]>>
    /\ state = "closed"
    /\ \E c \in CloseCallers : cAtAccept[c] /\ cpc[c] = "returned"
    /\ \E a \in Accepters : apc[a] = "done"

\* C18: when the accept call fails with an error that is no network-layer
\* error, in every state, handleError sends that error once on Errs()
\* unmarked, nothing else, and the Accept task goes back to the accept call:
\* the loop does not end and the task does not crash.
C18_NonNetworkErrorForwarded ==
    [][\A a \in Accepters :
         /\ (apc[a] = "handle" /\ apc'[a] # "handle" /\ ~aerr[a].net)
              => /\ serrsFeed' = serrsFeed
                 /\ apc'[a] = "sendNotNet"
                 /\ aerr'[a] = aerr[a]
         /\ (apc[a] = "sendNotNet" /\ apc'[a] # "sendNotNet")
              => /\ serrsFeed' = Append(serrsFeed, [err |-> aerr[a], fatal |-> FALSE])
                 /\ apc'[a] = "accept"]_vars

\* The edges C19 lists.
ForwardEdges ==
    {<<"idle", "accepting">>, <<"accepting", "closing">>,
     <<"accepting", "releasing">>, <<"closing", "closed">>,
     <<"releasing", "closed">>}
\* A Close() or Release() call returns in this step.
ShutdownCallReturns ==
    \/ \E c \in CloseCallers : cpc[c] = "idle" /\ cpc'[c] = "returned"
    \/ \E r \in ReleaseCallers : rpc[r] = "idle" /\ rpc'[r] = "returned"
\* An Accept task runs its deferred setState(closed) in this step.
AcceptTaskEnds ==
    \E a \in Accepters :
        apc[a] \in {"setClosed", "unwind"} /\ apc'[a] \in {"done", "panicked"}

C20_ClosedIsAbsorbing ==
    [][state = "closed" => state' = "closed"]_vars

\* A Close() of the blocked Accept task, both Release() calls and a second
\* Accept() have been made, the task has ended, and the state is closed.
C20_Witness ==
    /\ state = "closed"
    /\ \E a, b \in Accepters : apc[a] = "done" /\ apc[b] = "refused"
    /\ \E c \in CloseCallers : cpc[c] = "returned" /\ cAtAccept[c]
    /\ \A r \in ReleaseCallers : rpc[r] = "returned"

\* A consumer goes on receiving from Errs().
ErrsRead == WF_vars(\E a \in Accepters : ReadErr(a))

\* C21: no wake-up is lost: a Close() or Release() caller that waits in
\* waitForState(closed) while the state is closed is woken and returns
\* (checked even with consumers that go on receiving from Clients() and
\* from Errs(), so that the Accept task is never held up in a send).
C21_NoLostWakeup ==
    (ClientsRead /\ ErrsRead) =>
      /\ \A c \in CloseCallers :
            (cpc[c] = "waiting" /\ state = "closed") ~> (cpc[c] = "returned")
      /\ \A r \in ReleaseCallers :
            (rpc[r] = "waiting" /\ state = "closed") ~> (rpc[r] = "returned")

\* The values published so far, on In() and on Errs() together.
Publications == Len(inFeed) + Len(errsFeed)
\* The run task holds a value it received and has not yet published.
InHand == pc \in {"parse", "sendIn", "sendErr"}

SendsUnderMutex(a) ==
    /\ apc[a] \in {"sendTemp", "sendFatal", "sendNotNet"}
    /\ mu = <<"accept", a>>
\* A Close() or Release() caller is blocked in Lock().
CallerAwaitsMutex ==
    \/ \E c \in CloseCallers : cpc[c] = "locking"
    \/ \E r \in ReleaseCallers : rpc[r] = "locking"

\* C23: in no reachable state does the Accept task wait for a reader of
\* Errs() with the state mutex held while a Close() or Release() caller
\* waits to acquire that mutex.
C23_NoHandOffUnderMutex ==
    ~(CallerAwaitsMutex /\ \E a \in Accepters : SendsUnderMutex(a))

====
